---- MODULE Spec2Model ----
(***************************************************************************)
(* Model of the streaming pull handler of the ollamaclient package:        *)
(* Config.Pull and generateColorizedProgressBar of pull.go, with the       *)
(* Config type and its constructors of the package's main file.            *)
(*                                                                         *)
(* Time is counted in hours.  Text (the strings.Builder, the digests, the  *)
(* progress bar) is a sequence of tokens; concatenation is \o.             *)
(***************************************************************************)
EXTENDS Integers, Sequences, FiniteSets, TLC

(***************************************************************************)
(* Bounds                                                                  *)
(***************************************************************************)
\* most records the server sends on one response body
MaxRecords == 4
\* the clock stops advancing here (hours)
MaxClock == 72
\* hours that pass in one step of the clock
TickStep == 24
\* largest bar width the renderer is applied to on its own
MaxWidth == 31
\* most records in the body of a response whose status is not 2xx (an error
\* response carries one JSON object)
MaxErrorRecords == 1
\* longest digest body (characters after the prefix) given to shortDigest
MaxHex == 16
\* decode calls of one call of the earlier Pull
MaxOldRecords == 3

(***************************************************************************)
(* Program constants                                                       *)
(***************************************************************************)
\* const defaultPullTimeout = 48 * time.Hour
defaultPullTimeout == 48
\* generateColorizedProgressBar(progress, 30) // Fixed width bar
BarWidth == 30
\* spinner = []string{"-", "\\", "|", "/"}
spinner == <<"-", "\\", "|", "/">>

ColorNames == {"blue", "cyan", "gray", "magenta", "red", "white", "reset"}
\* the package-level colors map as the program starts
colorsInitial ==
  [k \in ColorNames |->
     CASE k = "blue" -> "ESC[94m"
       [] k = "cyan" -> "ESC[96m"
       [] k = "gray" -> "ESC[37m"
       [] k = "magenta" -> "ESC[95m"
       [] k = "red" -> "ESC[91m"
       [] k = "white" -> "ESC[97m"
       [] OTHER -> "ESC[0m"]
EscapeCodes == {colorsInitial[k] : k \in ColorNames}

(***************************************************************************)
(* Inputs                                                                  *)
(***************************************************************************)
Sha256Prefix == <<"s", "h", "a", "2", "5", "6", ":">>
D1 == Sha256Prefix \o <<"a", "b", "c", "d", "e", "f", "1", "2", "3", "4">>
D2 == Sha256Prefix \o <<"1", "2", "3">>
NoDigest == <<>>
Digests == {NoDigest, D1, D2}
Statuses == {"pulling manifest", "verifying sha256 digest", "success"}
\* (Completed, Total) pairs; Total is 0 or a power of two, so that the
\* float64 quotient, its product with 100 and the renderer's own
\* progress / 100 * width are all exact and the model's integer arithmetic
\* is the program's arithmetic
Sizes == {<<0, 0>>, <<0, 4>>, <<2, 4>>, <<4, 4>>, <<8, 4>>}
\* type PullResponse struct
PullResponse ==
  [Digest : Digests, Completed : {s[1] : s \in Sizes},
   Total : {s[2] : s \in Sizes}, Status : Statuses]
\* the records the server sends; a verifying record carries no digest and no
\* sizes
Records ==
  {r \in PullResponse :
     /\ <<r.Completed, r.Total>> \in Sizes
     /\ r.Status = "verifying sha256 digest" =>
          (r.Digest = NoDigest /\ r.Total = 0)}
ZeroResponse == [Digest |-> NoDigest, Completed |-> 0, Total |-> 0, Status |-> ""]
StatusCodes == {200, 404}
PullTimeouts == {24, defaultPullTimeout}
Models == {"llama2"}
\* what Decode can fail with: end of stream, malformed record
DecodeErrors == {"EOF", "syntax"}
\* progress values handed to the renderer on its own: multiples of 25, whose
\* hundredth is an exact float64
Percents == {0, 25, 50, 75, 100, 125, 200}

(***************************************************************************)
(* Errors: one shape for every error value                                 *)
(***************************************************************************)
Err(kind, model, after) == [kind |-> kind, model |-> model, after |-> after]
NilErr == Err("nil", "", 0)
TransportErr == Err("transport", "", 0)
DecodeErr(e) == Err(e, "", 0)
\* fmt.Errorf("downloading %s timed out after %v", oc.Model, defaultPullTimeout)
TimeoutErr(model, after) == Err("timeout", model, after)

(***************************************************************************)
(* Pure functions                                                          *)
(***************************************************************************)
max(a, b) == IF a > b THEN a ELSE b

\* Go's int(f) for a float64 f = n / d: truncation toward zero
Trunc(n, d) == IF n >= 0 THEN n \div d ELSE -((-n) \div d)

\* strings.Repeat(s, count), for count >= 0
Repeat(s, count) == [i \in 1..count |-> s]

\* bar += code: appending the empty string adds nothing
Code(c) == IF c = "" THEN <<>> ELSE <<c>>

\* int(progress / 100 * float64(width))
ProgressInt(progress, width) == Trunc(progress * width, 100)

\* the counts the renderer passes to strings.Repeat, in order
RepeatCounts(progress, width) ==
  LET progressInt == ProgressInt(progress, width)
  IN  <<progressInt>>
      \o (IF progressInt > width \div 3
            THEN <<max(0, progressInt - width \div 3)>> ELSE <<>>)
      \o (IF progressInt > (2 * width) \div 3
            THEN <<max(0, progressInt - (2 * width) \div 3)>> ELSE <<>>)
      \o <<width - max(progressInt, width)>>

\* strings.Repeat panics on a negative count
BarPanics(progress, width) ==
  \E i \in DOMAIN RepeatCounts(progress, width) :
     RepeatCounts(progress, width)[i] < 0

generateColorizedProgressBar(progress, width, palette) ==
  LET progressInt == ProgressInt(progress, width)
      bar1 == Code(palette["blue"]) \o Repeat("=", progressInt)
      bar2 == IF progressInt > width \div 3
                THEN bar1 \o Code(palette["magenta"])
                          \o Repeat("=", max(0, progressInt - width \div 3))
                ELSE bar1
      bar3 == IF progressInt > (2 * width) \div 3
                THEN bar2 \o Code(palette["cyan"])
                          \o Repeat("=", max(0, progressInt - (2 * width) \div 3))
                ELSE bar2
  IN  bar3 \o Code(palette["white"])
           \o Repeat(" ", width - max(progressInt, width))
           \o Code(palette["reset"])

\* strings.TrimPrefix(s, prefix)
TrimPrefix(s, prefix) ==
  IF Len(s) >= Len(prefix) /\ SubSeq(s, 1, Len(prefix)) = prefix
    THEN SubSeq(s, Len(prefix) + 1, Len(s))
    ELSE s

\* shortDigest cut to 8 characters without removing the prefix
ShortDigestKeepsPrefix(digest) ==
  IF Len(digest) > 8 THEN SubSeq(digest, 1, 8) ELSE digest

\* shortDigest of the loop body
ShortDigest(digest) ==
  LET t == TrimPrefix(digest, Sha256Prefix)
  IN  IF Len(t) > 8 THEN SubSeq(t, 1, 8) ELSE t

\* float64(resp.Completed) / float64(resp.Total) * 100, for Total # 0
Progress(completed, total) == (completed * 100) \div total

(***************************************************************************)
(* State                                                                   *)
(***************************************************************************)
VARIABLES
  oc,               \* the Config the call is made on
  noColor,          \* env.Bool("NO_COLOR")
  colors,           \* the package-level palette
  pc,               \* where the call is
  now,              \* the wall clock
  verbose,          \* local of Pull
  statusCode,       \* resp.StatusCode of the HTTP response, 0 before it
  bodyOpen,         \* resp.Body is open
  closes,           \* number of resp.Body.Close() calls
  readAfterClose,   \* the body was read after Close
  sb,               \* the strings.Builder
  downloadStarted,  \* local of Pull
  spinnerPosition,  \* local of Pull
  lastDigest,       \* local of Pull
  resp,             \* the record decoded last
  shortDigest,      \* local of the loop body
  progressBar,      \* local of the loop body
  ret,              \* what Pull returned
  decodeCalls,      \* history: calls of decoder.Decode
  decoded,          \* history: records decoded
  digests,          \* history: digests of the records decoded
  boundaries,       \* history: records at which the digest-change test held
  accumulated,      \* history: status text of the records decoded
  timeoutChecks,    \* history: evaluations of the timeout test
  posts,            \* history: calls of http.Post
  twin,             \* the same call with the other verbosity, on the same
                    \* response, records and clock
  barProgress,      \* renderer on its own: argument
  barWidth,         \* renderer on its own: argument
  barResult,        \* renderer on its own: outcome
  other,            \* a second Pull call of the same process
  ifPc,             \* PullIfNeeded: where the call is
  ifModel,          \* PullIfNeeded: oc.Model
  listing,          \* PullIfNeeded: what List returns
  ifPulls,          \* PullIfNeeded: calls of Pull
  pullErr,          \* PullIfNeeded: the error Pull returned
  ifRet,            \* PullIfNeeded: the error returned
  digestIn,         \* shortDigest on its own: the digest
  digestOut,        \* shortDigest on its own: the digest displayed
  old               \* the earlier Pull of the package's main file

pullVars ==
  <<oc, noColor, colors, pc, now, verbose, statusCode, bodyOpen, closes,
    readAfterClose, sb, downloadStarted, spinnerPosition, lastDigest, resp,
    shortDigest, progressBar, ret, decodeCalls, decoded, digests,
    boundaries, accumulated, timeoutChecks, posts, twin>>
barVars == <<barProgress, barWidth, barResult>>
\* what a step of Pull leaves alone
ifVars == <<ifPc, ifModel, listing, ifPulls, pullErr, ifRet>>
digestVars == <<digestIn, digestOut>>
oldVars == <<old>>
auxVars == <<barVars, other, ifVars, digestVars, oldVars>>
vars == <<pullVars, auxVars>>

NoRet == [text |-> <<>>, err |-> Err("none", "", 0)]
NoBar == [panic |-> FALSE, bar |-> <<>>, done |-> FALSE]

\* spinnerPosition++ for every record without a total
SpinnerAdvancedAlways(position, isVerbose) == position + 1

\* spinnerPosition after a record without a total: spinnerPosition++ is
\* inside if verbose
SpinnerAdvanced(position, isVerbose) ==
  IF isVerbose THEN position + 1 ELSE position

\* lastDigest updated only where the digest changed
LastDigestOnBoundary(last, digest) ==
  IF last # NoDigest /\ last # digest THEN digest ELSE last

\* lastDigest = resp.Digest
LastDigestUpdated(last, digest) == digest

(***************************************************************************)
(* The twin call: Pull once more as a function from the state of a call    *)
(* and the step taken to the state after it.  The twin takes every step    *)
(* of the call, with the same input, and differs in verbose alone.         *)
(***************************************************************************)
TwinInit ==
  [pc |-> "idle", verbose |-> FALSE, sb |-> <<>>, downloadStarted |-> 0,
   spinnerPosition |-> 0, lastDigest |-> NoDigest, resp |-> ZeroResponse,
   ret |-> NoRet, decodeCalls |-> 0]

TwinReturn(t, text, err) ==
  [t EXCEPT !.pc = "returned", !.ret = [text |-> text, err |-> err]]

\* the loop body from shortDigest to the end of the Total branch
TwinRender(t) ==
  LET u == [t EXCEPT !.lastDigest = LastDigestUpdated(@, t.resp.Digest)]
  IN  IF t.resp.Total = 0
        THEN [u EXCEPT !.pc = "success",
                       !.spinnerPosition = SpinnerAdvanced(@, t.verbose)]
        ELSE IF BarPanics(Progress(t.resp.Completed, t.resp.Total), BarWidth)
               THEN [u EXCEPT !.pc = "panicked"]
               ELSE [u EXCEPT !.pc = "success"]

TwinStep(t, op, arg, clock) ==
  CASE op = "Call" /\ t.pc = "idle" ->
         [t EXCEPT !.pc = "post", !.verbose = arg]
    [] op = "PostFails" /\ t.pc = "post" ->
         [t EXCEPT !.pc = "returned",
                   !.ret = [text |-> <<>>, err |-> TransportErr]]
    [] op = "PostResponds" /\ t.pc = "post" ->
         [t EXCEPT !.pc = "decode", !.sb = <<>>, !.downloadStarted = clock,
                   !.spinnerPosition = 0, !.lastDigest = NoDigest]
    [] op = "DecodeRecord" /\ t.pc = "decode" ->
         [t EXCEPT !.pc = "render", !.resp = arg,
                   !.decodeCalls = @ + 1]
    [] op = "DecodeFails" /\ t.pc = "decode" ->
         TwinReturn([t EXCEPT !.decodeCalls = @ + 1], t.sb, DecodeErr(arg))
    [] op = "Render" /\ t.pc = "render" -> TwinRender(t)
    [] op = "CheckSuccess" /\ t.pc = "success" ->
         IF t.resp.Status = "success"
           THEN TwinReturn(t, t.sb, NilErr)
           ELSE [t EXCEPT !.pc = "timeout"]
    [] op = "CheckTimeout" /\ t.pc = "timeout" ->
         IF clock - t.downloadStarted > defaultPullTimeout
           THEN TwinReturn(t, t.sb, TimeoutErr(oc.Model, defaultPullTimeout))
           ELSE [t EXCEPT !.pc = "decode", !.resp = ZeroResponse]
    [] OTHER -> t

\* the twin takes the step op on the same input
TwinFollows(op, arg) == twin' = TwinStep(twin, op, arg, now)

\* NewCustom(model, addr, verbose, pullTimeout); New, NewWithModel, ... are
\* the case pullTimeout = defaultPullTimeout
NewCustom(model, verboseFlag, pullTimeout) ==
  [Model |-> model, Verbose |-> verboseFlag, PullTimeout |-> pullTimeout]

PullInit ==
  /\ oc \in {NewCustom(m, v, t) : m \in Models, v \in BOOLEAN, t \in PullTimeouts}
  /\ noColor \in BOOLEAN
  /\ colors = colorsInitial
  /\ pc = "idle"
  /\ now = 0
  /\ verbose = FALSE
  /\ statusCode = 0
  /\ bodyOpen = FALSE
  /\ closes = 0
  /\ readAfterClose = FALSE
  /\ sb = <<>>
  /\ downloadStarted = 0
  /\ spinnerPosition = 0
  /\ lastDigest = NoDigest
  /\ resp = ZeroResponse
  /\ shortDigest = <<>>
  /\ progressBar = <<>>
  /\ ret = NoRet
  /\ decodeCalls = 0
  /\ decoded = 0
  /\ digests = <<>>
  /\ boundaries = <<>>
  /\ accumulated = <<>>
  /\ timeoutChecks = 0
  /\ posts = 0
  /\ twin = TwinInit

BarIdle ==
  /\ barProgress = 0
  /\ barWidth = BarWidth
  /\ barResult = NoBar

\* no second call
OtherIdle == other = "none"

IfIdle ==
  /\ ifPc = "idle"
  /\ ifModel = <<>>
  /\ listing = [err |-> FALSE, names |-> {}]
  /\ ifPulls = 0
  /\ pullErr = Err("none", "", 0)
  /\ ifRet = Err("none", "", 0)

DigestIdle ==
  /\ digestIn = <<>>
  /\ digestOut = <<"none">>

\* the earlier Pull before the call, for a Config; its clock counts seconds
OldStart(verboseFlag, pullTimeout) ==
  [pc |-> "idle", Verbose |-> verboseFlag, PullTimeout |-> pullTimeout,
   verbose |-> FALSE, now |-> 0, start |-> 0, sb |-> <<>>,
   pullResp |-> [Status |-> <<>>], tested |-> FALSE,
   gotUnusualStatus |-> FALSE, decodeCalls |-> 0, ret |-> NoRet]

OldIdle == old = OldStart(FALSE, 2)

Init == PullInit /\ BarIdle /\ OtherIdle /\ IfIdle /\ DigestIdle /\ OldIdle

(***************************************************************************)
(* Config.Pull                                                             *)
(***************************************************************************)
\* Return without the deferred Close
ReturnBodyOpen(text, err) ==
  /\ ret' = [text |-> text, err |-> err]
  /\ pc' = "returned"
  /\ UNCHANGED <<bodyOpen, closes>>

\* return text, err after the deferred resp.Body.Close() is registered
Return(text, err) ==
  /\ ret' = [text |-> text, err |-> err]
  /\ pc' = "returned"
  /\ bodyOpen' = FALSE
  /\ closes' = closes + 1

\* a panic unwinds the call: the deferred Close runs, nothing is returned
Panic ==
  /\ pc' = "panicked"
  /\ bodyOpen' = FALSE
  /\ closes' = closes + 1
  /\ UNCHANGED ret

\* entry of Pull up to the POST: palette, verbose (json.Marshal of a struct
\* of a string and a bool does not fail)
Call(optionalVerbose) ==
  /\ pc = "idle"
  /\ colors' = IF noColor THEN [k \in ColorNames |-> ""] ELSE colors
  /\ verbose' = (oc.Verbose \/ (Len(optionalVerbose) > 0 /\ optionalVerbose[1]))
  /\ pc' = "post"
  /\ UNCHANGED <<oc, noColor, now, statusCode, bodyOpen, closes, readAfterClose,
                 sb, downloadStarted, spinnerPosition, lastDigest, resp,
                 shortDigest, progressBar, ret, decodeCalls, decoded,
                 digests, boundaries, accumulated, timeoutChecks>>
  /\ UNCHANGED posts
  /\ TwinFollows("Call", ~verbose')
  /\ UNCHANGED auxVars

\* PostFails that issues the request once more before giving up
PostFailsRetries ==
  /\ pc = "post"
  /\ IF posts = 0
       THEN UNCHANGED <<pc, ret>>
       ELSE /\ ret' = [text |-> <<>>, err |-> TransportErr]
            /\ pc' = "returned"
  /\ UNCHANGED <<oc, noColor, colors, now, verbose, statusCode, bodyOpen, closes,
                 readAfterClose, sb, downloadStarted, spinnerPosition,
                 lastDigest, resp, shortDigest, progressBar,
                 decodeCalls, decoded, digests, boundaries, accumulated,
                 timeoutChecks>>
  /\ posts' = posts + 1
  /\ TwinFollows("PostFails", 0)
  /\ UNCHANGED auxVars

\* http.Post fails: return "", err
PostFails ==
  /\ pc = "post"
  /\ ret' = [text |-> <<>>, err |-> TransportErr]
  /\ pc' = "returned"
  /\ UNCHANGED <<oc, noColor, colors, now, verbose, statusCode, bodyOpen, closes,
                 readAfterClose, sb, downloadStarted, spinnerPosition,
                 lastDigest, resp, shortDigest, progressBar,
                 decodeCalls, decoded, digests, boundaries, accumulated,
                 timeoutChecks>>
  /\ posts' = posts + 1
  /\ TwinFollows("PostFails", 0)
  /\ UNCHANGED auxVars

\* http.Post returns a response, whatever its status code; the locals of the
\* loop are set up
PostResponds(code) ==
  /\ pc = "post"
  /\ statusCode' = code
  /\ bodyOpen' = TRUE
  /\ sb' = <<>>
  /\ downloadStarted' = now
  /\ spinnerPosition' = 0
  /\ lastDigest' = NoDigest
  /\ pc' = "decode"
  /\ UNCHANGED <<oc, noColor, colors, now, verbose, closes, readAfterClose, resp,
                 shortDigest, progressBar, ret, decodeCalls, decoded,
                 digests, boundaries, accumulated, timeoutChecks>>
  /\ posts' = posts + 1
  /\ TwinFollows("PostResponds", code)
  /\ UNCHANGED auxVars

\* decoder.Decode(&resp) yields the next record of the body
DecodeRecord(r) ==
  /\ pc = "decode"
  /\ decodeCalls < MaxRecords
  /\ statusCode \in 200..299 \/ decodeCalls < MaxErrorRecords
  /\ decodeCalls' = decodeCalls + 1
  /\ readAfterClose' = (readAfterClose \/ ~bodyOpen)
  /\ resp' = r
  /\ decoded' = decoded + 1
  /\ digests' = Append(digests, r.Digest)
  /\ accumulated' = Append(accumulated, r.Status)
  /\ pc' = "render"
  /\ UNCHANGED <<oc, noColor, colors, now, verbose, statusCode, bodyOpen, closes,
                 sb, downloadStarted, spinnerPosition, lastDigest, shortDigest,
                 progressBar, ret, boundaries, timeoutChecks>>
  /\ UNCHANGED posts
  /\ TwinFollows("DecodeRecord", r)
  /\ UNCHANGED auxVars

\* decoder.Decode(&resp) fails: return sb.String(), err
DecodeFails(e) ==
  /\ pc = "decode"
  /\ decodeCalls' = decodeCalls + 1
  /\ readAfterClose' = (readAfterClose \/ ~bodyOpen)
  /\ Return(sb, DecodeErr(e))
  /\ UNCHANGED <<oc, noColor, colors, now, verbose, statusCode, sb,
                 downloadStarted, spinnerPosition, lastDigest, resp,
                 shortDigest, progressBar, decoded, digests,
                 boundaries, accumulated, timeoutChecks>>
  /\ UNCHANGED posts
  /\ TwinFollows("DecodeFails", e)
  /\ UNCHANGED auxVars

\* the digest-change test on the record's digest instead of the last one
DigestChangedCurrent(last, digest) == digest # NoDigest /\ last # digest

\* the digest-change test of the loop body
DigestChanged(last, digest) == last # NoDigest /\ last # digest

\* Render with the bar built inside the verbose branch only
RenderBarWhenVerbose ==
  /\ pc = "render"
  /\ shortDigest' = ShortDigest(resp.Digest)
  /\ boundaries' = Append(boundaries, DigestChanged(lastDigest, resp.Digest))
  /\ lastDigest' = LastDigestUpdated(lastDigest, resp.Digest)
  /\ IF resp.Total = 0
       THEN /\ spinnerPosition' = SpinnerAdvanced(spinnerPosition, verbose)
            /\ pc' = "success"
            /\ UNCHANGED <<progressBar, ret, bodyOpen, closes>>
       ELSE LET progress == Progress(resp.Completed, resp.Total)
            IN  IF verbose /\ BarPanics(progress, BarWidth)
                  THEN /\ Panic
                       /\ UNCHANGED <<progressBar, spinnerPosition>>
                  ELSE /\ progressBar' =
                            IF verbose
                              THEN generateColorizedProgressBar(progress, BarWidth, colors)
                              ELSE progressBar
                       /\ pc' = "success"
                       /\ UNCHANGED <<spinnerPosition, ret, bodyOpen, closes>>
  /\ UNCHANGED <<oc, noColor, colors, now, verbose, statusCode, readAfterClose,
                 sb, downloadStarted, resp, decodeCalls, decoded, digests,
                 accumulated, timeoutChecks>>
  /\ UNCHANGED posts
  /\ TwinFollows("Render", 0)
  /\ UNCHANGED auxVars

\* the loop body from shortDigest to the end of the Total branch
Render ==
  /\ pc = "render"
  /\ shortDigest' = ShortDigest(resp.Digest)
  /\ boundaries' = Append(boundaries, DigestChanged(lastDigest, resp.Digest))
  /\ lastDigest' = LastDigestUpdated(lastDigest, resp.Digest)
  /\ IF resp.Total = 0
       THEN /\ spinnerPosition' = SpinnerAdvanced(spinnerPosition, verbose)
            /\ pc' = "success"
            /\ UNCHANGED <<progressBar, ret, bodyOpen, closes>>
       ELSE LET progress == Progress(resp.Completed, resp.Total)
            IN  IF BarPanics(progress, BarWidth)
                  THEN /\ Panic
                       /\ UNCHANGED <<progressBar, spinnerPosition>>
                  ELSE /\ progressBar' =
                            generateColorizedProgressBar(progress, BarWidth, colors)
                       /\ pc' = "success"
                       /\ UNCHANGED <<spinnerPosition, ret, bodyOpen, closes>>
  /\ UNCHANGED <<oc, noColor, colors, now, verbose, statusCode, readAfterClose,
                 sb, downloadStarted, resp, decodeCalls, decoded, digests,
                 accumulated, timeoutChecks>>
  /\ UNCHANGED posts
  /\ TwinFollows("Render", 0)
  /\ UNCHANGED auxVars

\* resp, shortDigest and progressBar are declared inside the loop body: a
\* new iteration starts from their zero values
IterationEnds ==
  /\ resp' = IF pc' = "decode" THEN ZeroResponse ELSE resp
  /\ shortDigest' = IF pc' = "decode" THEN <<>> ELSE shortDigest
  /\ progressBar' = IF pc' = "decode" THEN <<>> ELSE progressBar

\* CheckSuccess with the two tests of the loop body in the other order
CheckSuccessTimeoutFirst ==
  /\ pc = "success"
  /\ IF now - downloadStarted > defaultPullTimeout
       THEN /\ timeoutChecks' = timeoutChecks + 1
            /\ Return(sb, TimeoutErr(oc.Model, defaultPullTimeout))
       ELSE /\ UNCHANGED timeoutChecks
            /\ IF resp.Status = "success"
                 THEN Return(sb, NilErr)
                 ELSE /\ pc' = "timeout"
                      /\ UNCHANGED <<ret, bodyOpen, closes>>
  /\ UNCHANGED <<oc, noColor, colors, now, verbose, statusCode, readAfterClose,
                 sb, downloadStarted, spinnerPosition, lastDigest, resp,
                 shortDigest, progressBar, decodeCalls, decoded,
                 digests, boundaries, accumulated>>
  /\ UNCHANGED posts
  /\ TwinFollows("CheckSuccess", 0)
  /\ UNCHANGED auxVars

\* CheckSuccess that takes a status it does not know for a failure
CheckSuccessUnknownFatal ==
  /\ pc = "success"
  /\ IF resp.Status = "success"
       THEN Return(sb, NilErr)
       ELSE IF resp.Status = "pulling manifest"
              THEN /\ pc' = "timeout"
                   /\ UNCHANGED <<ret, bodyOpen, closes>>
              ELSE Return(sb, Err("status", oc.Model, 0))
  /\ UNCHANGED <<oc, noColor, colors, now, verbose, statusCode, readAfterClose,
                 sb, downloadStarted, spinnerPosition, lastDigest, resp,
                 shortDigest, progressBar, decodeCalls, decoded,
                 digests, boundaries, accumulated, timeoutChecks>>
  /\ UNCHANGED posts
  /\ TwinFollows("CheckSuccess", 0)
  /\ UNCHANGED auxVars

\* if resp.Status == "success" { ... break OUT }, then return sb.String(), nil
CheckSuccess ==
  /\ pc = "success"
  /\ IF resp.Status = "success"
       THEN Return(sb, NilErr)
       ELSE /\ pc' = "timeout"
            /\ UNCHANGED <<ret, bodyOpen, closes>>
  /\ UNCHANGED <<oc, noColor, colors, now, verbose, statusCode, readAfterClose,
                 sb, downloadStarted, spinnerPosition, lastDigest, resp,
                 shortDigest, progressBar, decodeCalls, decoded,
                 digests, boundaries, accumulated, timeoutChecks>>
  /\ UNCHANGED posts
  /\ TwinFollows("CheckSuccess", 0)
  /\ UNCHANGED auxVars

\* CheckTimeout with >= for >
CheckTimeoutAtBudget ==
  /\ pc = "timeout"
  /\ timeoutChecks' = timeoutChecks + 1
  /\ IF now - downloadStarted >= defaultPullTimeout
       THEN Return(sb, TimeoutErr(oc.Model, defaultPullTimeout))
       ELSE /\ pc' = "decode"
            /\ UNCHANGED <<ret, bodyOpen, closes>>
  /\ IterationEnds
  /\ UNCHANGED <<oc, noColor, colors, now, verbose, statusCode, readAfterClose,
                 sb, downloadStarted, spinnerPosition, lastDigest, decodeCalls,
                 decoded, digests, boundaries, accumulated>>
  /\ UNCHANGED posts
  /\ TwinFollows("CheckTimeout", 0)
  /\ UNCHANGED auxVars

\* if time.Since(downloadStarted) > defaultPullTimeout { return ... }
CheckTimeout ==
  /\ pc = "timeout"
  /\ timeoutChecks' = timeoutChecks + 1
  /\ IF now - downloadStarted > defaultPullTimeout
       THEN Return(sb, TimeoutErr(oc.Model, defaultPullTimeout))
       ELSE /\ pc' = "decode"
            /\ UNCHANGED <<ret, bodyOpen, closes>>
  /\ IterationEnds
  /\ UNCHANGED <<oc, noColor, colors, now, verbose, statusCode, readAfterClose,
                 sb, downloadStarted, spinnerPosition, lastDigest, decodeCalls,
                 decoded, digests, boundaries, accumulated>>
  /\ UNCHANGED posts
  /\ TwinFollows("CheckTimeout", 0)
  /\ UNCHANGED auxVars

\* time passes while the call is blocked in decoder.Decode, waiting for the
\* next record
Tick ==
  /\ pc = "decode"
  /\ now + TickStep <= MaxClock
  /\ now' = now + TickStep
  /\ UNCHANGED <<oc, noColor, colors, pc, verbose, statusCode, bodyOpen, closes,
                 readAfterClose, sb, downloadStarted, spinnerPosition,
                 lastDigest, resp, shortDigest, progressBar, ret,
                 decodeCalls, decoded, digests, boundaries, accumulated,
                 timeoutChecks>>
  /\ UNCHANGED posts
  /\ TwinFollows("Tick", 0)
  /\ UNCHANGED auxVars

Next ==
  \/ \E optionalVerbose \in {<<>>, <<TRUE>>, <<FALSE>>} : Call(optionalVerbose)
  \/ PostFails
  \/ \E code \in StatusCodes : PostResponds(code)
  \/ \E r \in Records : DecodeRecord(r)
  \/ \E e \in DecodeErrors : DecodeFails(e)
  \/ Render
  \/ CheckSuccess
  \/ CheckTimeout
  \/ Tick

Spec == Init /\ [][Next]_vars

(***************************************************************************)
(* generateColorizedProgressBar on its own, over every progress, width and *)
(* palette of the input sets                                               *)
(***************************************************************************)
BarInit ==
  /\ PullInit
  /\ oc = NewCustom("llama2", FALSE, defaultPullTimeout)
  /\ barProgress \in Percents
  /\ barWidth \in 1..MaxWidth
  /\ barResult = NoBar
  /\ OtherIdle
  /\ IfIdle
  /\ DigestIdle
  /\ OldIdle

\* one call generateColorizedProgressBar(barProgress, barWidth), under the
\* palette as Pull leaves it
RenderBar ==
  /\ ~barResult.done
  /\ LET palette == IF noColor THEN [k \in ColorNames |-> ""] ELSE colors
     IN  barResult' =
           IF BarPanics(barProgress, barWidth)
             THEN [panic |-> TRUE, bar |-> <<>>, done |-> TRUE]
             ELSE [panic |-> FALSE,
                   bar |-> generateColorizedProgressBar(barProgress, barWidth, palette),
                   done |-> TRUE]
  /\ UNCHANGED <<barProgress, barWidth, other, ifVars, digestVars, oldVars>>
  /\ UNCHANGED pullVars

BarNext == RenderBar

SpecBar == BarInit /\ [][BarNext]_vars

(***************************************************************************)
(* Two Pull calls in one process.  The second call is modelled by its      *)
(* entry, the loop that blanks the package-level colors map when NO_COLOR  *)
(* is set.  The map is unsynchronised: an access by the first call while   *)
(* the second is in that loop is a data race, which the Go runtime may     *)
(* answer with a fatal error that ends the process.                        *)
(***************************************************************************)
\* the second call enters Pull
OtherCalls ==
  /\ other = "none"
  /\ other' = IF noColor THEN "palette" ELSE "running"
  /\ UNCHANGED <<pullVars, barVars, ifVars, digestVars, oldVars>>

\* the second call leaves its for k := range colors loop
OtherWrites ==
  /\ other = "palette"
  /\ colors' = [k \in ColorNames |-> ""]
  /\ other' = "running"
  /\ UNCHANGED <<oc, noColor, pc, now, verbose, statusCode, bodyOpen, closes,
                 readAfterClose, sb, downloadStarted, spinnerPosition,
                 lastDigest, resp, shortDigest, progressBar, ret, decodeCalls,
                 decoded, digests, boundaries, accumulated, timeoutChecks,
                 posts, twin>>
  /\ UNCHANGED <<barVars, ifVars, digestVars, oldVars>>

\* fatal error: concurrent map writes; no deferred call runs
CallRaces ==
  /\ pc = "idle"
  /\ noColor
  /\ other = "palette"
  /\ pc' = "crashed"
  /\ UNCHANGED <<oc, noColor, colors, now, verbose, statusCode, bodyOpen, closes,
                 readAfterClose, sb, downloadStarted, spinnerPosition,
                 lastDigest, resp, shortDigest, progressBar, ret, decodeCalls,
                 decoded, digests, boundaries, accumulated, timeoutChecks,
                 posts, twin>>
  /\ UNCHANGED auxVars

\* fatal error: concurrent map read and map write, when the loop body reads
\* colors (the spinner line in verbose mode, the bar in either mode)
RenderRaces ==
  /\ pc = "render"
  /\ resp.Total # 0 \/ verbose
  /\ other = "palette"
  /\ pc' = "crashed"
  /\ UNCHANGED <<oc, noColor, colors, now, verbose, statusCode, bodyOpen, closes,
                 readAfterClose, sb, downloadStarted, spinnerPosition,
                 lastDigest, resp, shortDigest, progressBar, ret, decodeCalls,
                 decoded, digests, boundaries, accumulated, timeoutChecks,
                 posts, twin>>
  /\ UNCHANGED auxVars

ConcNext ==
  \/ Next
  \/ OtherCalls
  \/ OtherWrites
  \/ CallRaces
  \/ RenderRaces

SpecConc == Init /\ [][ConcNext]_vars

(***************************************************************************)
(* Config.PullIfNeeded, with Has and HasModel.  Names are sequences of     *)
(* tokens; the call of Pull is taken by the error it returns.              *)
(***************************************************************************)
Latest == <<":", "latest">>
\* the names the server lists
ListNames == {<<"llama2">> \o Latest, <<"llama2", ":", "7b">>, <<"mistral">> \o Latest}
\* oc.Model
ModelNames ==
  {<<"llama2">>, <<"llama2">> \o Latest, <<"llama2", ":", "7b">>,
   <<" ", "llama2", " ">>, <<"mistral", ":", "7b">>, <<"phi">>}
\* the errors Pull returns
PullErrors ==
  {NilErr, TransportErr, DecodeErr("EOF"), DecodeErr("syntax"),
   TimeoutErr("llama2", defaultPullTimeout)}

RECURSIVE TrimLeft(_)
TrimLeft(str) ==
  IF Len(str) > 0 /\ str[1] = " " THEN TrimLeft(Tail(str)) ELSE str
RECURSIVE TrimRight(_)
TrimRight(str) ==
  IF Len(str) > 0 /\ str[Len(str)] = " "
    THEN TrimRight(SubSeq(str, 1, Len(str) - 1)) ELSE str
\* strings.TrimSpace(s)
TrimSpace(str) == TrimRight(TrimLeft(str))

\* strings.Contains(s, ":")
ContainsColon(str) == \E i \in DOMAIN str : str[i] = ":"

\* Has without the ":latest" default
HasExactName(model, list) ==
  /\ ~list.err
  /\ TrimSpace(model) \in list.names

\* Config.Has(model), given what List returns
Has(model, list) ==
  LET trimmed == TrimSpace(model)
      wanted == IF ~ContainsColon(trimmed) THEN trimmed \o Latest ELSE trimmed
  IN  /\ ~list.err
      /\ \E name \in list.names : name = wanted

IfInit ==
  /\ PullInit
  /\ oc = NewCustom("llama2", FALSE, defaultPullTimeout)
  /\ ~noColor
  /\ BarIdle
  /\ OtherIdle
  /\ DigestIdle
  /\ OldIdle
  /\ ifPc = "idle"
  /\ ifModel \in ModelNames
  /\ listing \in {[err |-> TRUE, names |-> {}]}
                   \cup {[err |-> FALSE, names |-> n] : n \in SUBSET ListNames}
  /\ ifPulls = 0
  /\ pullErr = Err("none", "", 0)
  /\ ifRet = Err("none", "", 0)

\* if !oc.HasModel() { ... } return nil
IfHasModel ==
  /\ ifPc = "idle"
  /\ IF Has(ifModel, listing)
       THEN ifPc' = "done" /\ ifRet' = NilErr
       ELSE ifPc' = "pull" /\ UNCHANGED ifRet
  /\ UNCHANGED <<ifModel, listing, ifPulls, pullErr>>
  /\ UNCHANGED <<pullVars, barVars, other, digestVars, oldVars>>

\* if _, err := oc.Pull(optionalVerbose...); err != nil { return err }; return nil
IfPull(err) ==
  /\ ifPc = "pull"
  /\ ifPulls' = ifPulls + 1
  /\ pullErr' = err
  /\ ifRet' = IF err # NilErr THEN err ELSE NilErr
  /\ ifPc' = "done"
  /\ UNCHANGED <<ifModel, listing>>
  /\ UNCHANGED <<pullVars, barVars, other, digestVars, oldVars>>

\* Pull panics (C10) and PullIfNeeded with it
IfPullPanics ==
  /\ ifPc = "pull"
  /\ ifPulls' = ifPulls + 1
  /\ ifPc' = "panicked"
  /\ UNCHANGED <<ifModel, listing, pullErr, ifRet>>
  /\ UNCHANGED <<pullVars, barVars, other, digestVars, oldVars>>

IfNext ==
  \/ IfHasModel
  \/ \E err \in PullErrors : IfPull(err)
  \/ IfPullPanics

SpecIf == IfInit /\ [][IfNext]_vars

(***************************************************************************)
(* shortDigest on its own: the digests are an optional prefix followed by  *)
(* hexadecimal characters, as the server sends them.                       *)
(***************************************************************************)
Hex == <<"a", "b", "c", "d", "e", "f", "1", "2", "3", "4", "5", "6", "7", "8", "9", "0">>
HexBody(n) == [i \in 1..n |-> Hex[((i - 1) % Len(Hex)) + 1]]
DigestPrefixes ==
  {<<>>, Sha256Prefix, <<"s", "h", "a">>, Sha256Prefix \o Sha256Prefix,
   <<"f">> \o Sha256Prefix, <<"s", "h", "a", "5", "1", "2", ":">>}
DigestInputs == {p \o HexBody(n) : p \in DigestPrefixes, n \in 0..MaxHex}

DigestInit ==
  /\ PullInit
  /\ oc = NewCustom("llama2", FALSE, defaultPullTimeout)
  /\ ~noColor
  /\ BarIdle
  /\ OtherIdle
  /\ IfIdle
  /\ OldIdle
  /\ digestIn \in DigestInputs
  /\ digestOut = <<"none">>

\* shortDigest := strings.TrimPrefix(resp.Digest, "sha256:"), cut to 8
Shorten ==
  /\ digestOut = <<"none">>
  /\ digestOut' = ShortDigest(digestIn)
  /\ UNCHANGED digestIn
  /\ UNCHANGED <<pullVars, barVars, other, ifVars, oldVars>>

DigestNext == Shorten

SpecDigest == DigestInit /\ [][DigestNext]_vars

(***************************************************************************)
(* The earlier Config.Pull of the package's main file.  A status is a      *)
(* sequence of words and spaces, and a prefix is one too.                  *)
(***************************************************************************)
Downloading == <<"downloading", " ">>
Pulling == <<"pulling", " ">>
Verifying == <<"verifying", " ">>
Success == <<"success">>
OldStatuses ==
  {Downloading \o <<"layer">>, Pulling \o <<"manifest">>,
   Verifying \o <<"sha256", " ", "digest">>, Success,
   <<"writing", " ", "manifest">>, <<"downloading">>, <<>>}
\* oc.PullTimeout, in seconds
OldPullTimeouts == {2, 3}
\* seconds an iteration takes over the second it sleeps
OldDelays == {0, 1}

\* strings.HasPrefix(s, prefix)
HasPrefix(str, prefix) ==
  /\ Len(str) >= Len(prefix)
  /\ SubSeq(str, 1, Len(prefix)) = prefix

\* fmt.Errorf("recevied status when downloading: %s", pullResp.Status)
StatusErr(status) == [kind |-> "status", status |-> status]
\* fmt.Errorf("pull timed out after %v", oc.PullTimeout)
OldTimeoutErr(after) == Err("timeout", "", after)

\* the status test with "success" let through and "pulling " not
NotDownloadingAsStated(status) ==
  status # Success /\ ~HasPrefix(status, Downloading)

\* the outer status test of the loop body
NotDownloading(status) ==
  ~HasPrefix(status, Downloading) /\ ~HasPrefix(status, Pulling)

OldInit ==
  /\ PullInit
  /\ oc = NewCustom("llama2", FALSE, defaultPullTimeout)
  /\ ~noColor
  /\ BarIdle
  /\ OtherIdle
  /\ IfIdle
  /\ DigestIdle
  /\ old \in {OldStart(v, t) : v \in BOOLEAN, t \in OldPullTimeouts}

OldLeavesAlone == UNCHANGED <<pullVars, barVars, other, ifVars, digestVars>>

\* verbose := oc.Verbose, true with optionalVerbose
OldCall(optionalVerbose) ==
  /\ old.pc = "idle"
  /\ old' = [old EXCEPT !.pc = "post",
                        !.verbose = old.Verbose \/ optionalVerbose]
  /\ OldLeavesAlone

\* HttpClient.Post fails: return "", err
OldPostFails ==
  /\ old.pc = "post"
  /\ old' = [old EXCEPT !.pc = "returned",
                        !.ret = [text |-> <<>>, err |-> TransportErr]]
  /\ OldLeavesAlone

\* HttpClient.Post gives a response: the builder, the flag and start
OldPostResponds ==
  /\ old.pc = "post"
  /\ old' = [old EXCEPT !.pc = "decode", !.sb = <<>>,
                        !.gotUnusualStatus = FALSE, !.start = old.now]
  /\ OldLeavesAlone

\* decoder.Decode fails: break, and return sb.String(), nil
OldDecodeFails ==
  /\ old.pc = "decode"
  /\ old' = [old EXCEPT !.pc = "returned", !.decodeCalls = @ + 1,
                        !.ret = [text |-> old.sb, err |-> NilErr]]
  /\ OldLeavesAlone

\* a record is decoded, its status written to sb and tested
OldDecodeRecord(status) ==
  /\ old.pc = "decode"
  /\ old.decodeCalls < MaxOldRecords
  /\ LET written == old.sb \o status
         o == [old EXCEPT !.decodeCalls = @ + 1, !.sb = written,
                          !.pullResp = [Status |-> status], !.tested = TRUE]
     IN  old' =
           IF NotDownloading(status)
             THEN IF HasPrefix(status, Verifying)
                    THEN [o EXCEPT !.pc = "returned",
                                   !.ret = [text |-> written, err |-> NilErr]]
                    ELSE [o EXCEPT !.pc = "returned",
                                   !.gotUnusualStatus = old.verbose,
                                   !.ret = [text |-> <<>>,
                                            err |-> StatusErr(status)]]
             ELSE [o EXCEPT !.pc = "sleep"]
  /\ OldLeavesAlone

\* time.Sleep(1 * time.Second), then the timeout test
OldSleep(delay) ==
  /\ old.pc = "sleep"
  /\ LET clock == old.now + 1 + delay
     IN  old' =
           IF clock - old.start > old.PullTimeout
             THEN [old EXCEPT !.now = clock, !.pc = "returned",
                              !.ret = [text |-> old.sb,
                                       err |-> OldTimeoutErr(old.PullTimeout)]]
             ELSE [old EXCEPT !.now = clock, !.pc = "decode",
                              !.pullResp = [Status |-> <<>>],
                              !.tested = FALSE]
  /\ OldLeavesAlone

OldNext ==
  \/ \E optionalVerbose \in BOOLEAN : OldCall(optionalVerbose)
  \/ OldPostFails
  \/ OldPostResponds
  \/ OldDecodeFails
  \/ \E status \in OldStatuses : OldDecodeRecord(status)
  \/ \E delay \in OldDelays : OldSleep(delay)

SpecOld == OldInit /\ [][OldNext]_vars

(***************************************************************************)
(* Properties                                                              *)
(***************************************************************************)
Elapsed == now - downloadStarted
Range(f) == {f[i] : i \in DOMAIN f}
\* the bar without its colour escape sequences
Visible(bar) == SelectSeq(bar, LAMBDA t : t \notin EscapeCodes)
\* the digest of the record before record i, none before the first
PrevDigest(i) == IF i = 1 THEN NoDigest ELSE digests[i - 1]
SuccessDecoded == decoded > 0 /\ resp.Status = "success"

C2_SuccessReturnsStatusText ==
  (pc = "returned" /\ SuccessDecoded) =>
     /\ ret.err = NilErr
     /\ ret.text = accumulated
     /\ "success" \in Range(ret.text)

\* C3: when the k-th Decode fails and none of the first k-1 records was a
\* success, Pull reads no more and returns the decoder's error, never nil,
\* with the status text accumulated from the first k-1 records.
C3_DecodeErrorReturnsStatusText ==
  (pc = "returned" /\ decodeCalls > decoded) =>
     /\ ret.err.kind \in DecodeErrors
     /\ ret.err # NilErr
     /\ ret.text = accumulated

\* C4: the timeout test is evaluated exactly once after each decoded record
\* whose status is not "success" and at no other moment; when the elapsed
\* time then exceeds the budget the call reads no further record and returns
\* a timeout error, otherwise it goes on to the next Decode; no timeout fires
\* while the call is blocked in Decode, however long the wait.
C4_ChecksMatchRecords ==
  /\ pc \in {"idle", "post"} => timeoutChecks = 0
  /\ pc = "decode" => timeoutChecks = decoded
  /\ pc \in {"render", "success", "timeout", "panicked"} =>
       timeoutChecks = decoded - 1
  /\ pc = "returned" =>
       timeoutChecks = CASE ret.err = TransportErr -> 0
                         [] ret.err = NilErr -> decoded - 1
                         [] OTHER -> decoded
  /\ (pc = "returned" /\ ret.err.kind = "timeout") =>
       /\ decoded >= 1
       /\ resp \in Records
       /\ resp.Status # "success"
       /\ Elapsed > defaultPullTimeout

C4_TimeoutStep ==
  /\ pc = "timeout" =>
       IF Elapsed > defaultPullTimeout
         THEN /\ pc' = "returned"
              /\ ret'.err.kind = "timeout"
              /\ decodeCalls' = decodeCalls
         ELSE pc' = "decode" /\ ret' = ret
  /\ pc # "timeout" => (ret'.err.kind = "timeout" <=> ret.err.kind = "timeout")

C5_ConfiguredTimeoutEnforced ==
  [][(pc = "timeout" /\ Elapsed > oc.PullTimeout) =>
       /\ pc' = "returned"
       /\ ret'.err = TimeoutErr(oc.Model, oc.PullTimeout)]_vars

\* C6: when the POST fails at the HTTP level (no response, or a response
\* whose status is not 2xx), Pull returns an error at once and decodes no
\* record from the body.
C6_HttpFailureReturnsAtOnce ==
  (pc \notin {"idle", "post"} /\ statusCode \notin 200..299) =>
     /\ pc = "returned"
     /\ ret.err # NilErr
     /\ decodeCalls = 0

\* C7: once a response body is acquired it is closed exactly once by the
\* time Pull is left, on every exit path, it is open until then, and it is
\* never read after it is closed.
C7_BodyClosedOnce ==
  /\ ~readAfterClose
  /\ statusCode = 0 => (closes = 0 /\ ~bodyOpen)
  /\ (statusCode # 0 /\ pc \in {"returned", "panicked"}) =>
       (closes = 1 /\ ~bodyOpen)
  /\ (statusCode # 0 /\ pc \notin {"returned", "panicked"}) =>
       (closes = 0 /\ bodyOpen)

C7_Witness ==
  /\ pc = "returned"
  /\ ret.err.kind = "timeout"
  /\ statusCode # 0
  /\ closes = 1

\* C8 as stated: a boundary is detected at a record if and only if the
\* record's digest is non-empty and differs from the digest of the record
\* before it.
C8_BoundaryIffDigestNonEmpty ==
  \A i \in DOMAIN boundaries :
     boundaries[i] <=>
       (i > 1 /\ digests[i] # NoDigest /\ digests[i] # PrevDigest(i))

\* C8, amended: a boundary is detected at a record if and only if the digest
\* of the record before it is non-empty and differs from the record's own;
\* for digests [D1, D1, D2, D2] that is once, at the first D2.
C8_BoundaryIffLastDigestNonEmpty ==
  /\ \A i \in DOMAIN boundaries :
        boundaries[i] <=>
          (PrevDigest(i) # NoDigest /\ PrevDigest(i) # digests[i])
  /\ (digests = <<D1, D1, D2, D2>> /\ Len(boundaries) = 4) =>
        boundaries = <<FALSE, FALSE, TRUE, FALSE>>

C8_Witness ==
  /\ digests = <<D1, D1, D2, D2>>
  /\ boundaries = <<FALSE, FALSE, TRUE, FALSE>>

\* C9: for a progress in [0, 100] and a width >= 1 the bar has, colours
\* aside, exactly width characters: some number of "=" followed by spaces.
C9_BarHasWidth ==
  (barResult.done /\ barProgress \in 0..100) =>
     /\ ~barResult.panic
     /\ Len(Visible(barResult.bar)) = barWidth
     /\ \E filled \in 0..barWidth :
           Visible(barResult.bar) =
             Repeat("=", filled) \o Repeat(" ", barWidth - filled)

\* C10: rendering never crashes: no record with Total > 0, not even one with
\* Completed > Total, makes Pull panic.
C10_RenderingNeverPanics == pc # "panicked"

\* C11: verbosity does not affect the result: the call and its twin, which
\* differ in verbose alone and get the same response, records and timing,
\* are always at the same place, have read the same number of records and
\* return the same text and error.
C11_VerboseDoesNotAffectResult ==
  /\ pc # "idle" => twin.verbose # verbose
  /\ twin.pc = pc
  /\ twin.decodeCalls = decodeCalls
  /\ twin.ret = ret

C11_Witness ==
  /\ pc = "returned"
  /\ decodeCalls >= 2
  /\ twin.verbose # verbose
  /\ twin.spinnerPosition # spinnerPosition
  /\ twin.ret = ret

C13_NoCrashFromOtherCall == pc # "crashed"

\* C14: a call issues at most one POST and never retries: the request is
\* issued once on the way from the entry to the loop or to the transport
\* error, a failing Decode is the last read of the stream, and once the call
\* has returned an error nothing more is requested or read.
C14_PostCount ==
  /\ posts <= 1
  /\ pc \in {"idle", "post"} => posts = 0
  /\ pc \notin {"idle", "post"} => posts = 1
  /\ (pc = "returned" /\ ret.err = TransportErr) => decodeCalls = 0
  /\ (pc = "returned" /\ ret.err.kind \in DecodeErrors) =>
       decodeCalls = decoded + 1

C14_NothingAfterReturn ==
  pc = "returned" =>
    (pc' = pc /\ posts' = posts /\ decodeCalls' = decodeCalls /\ ret' = ret)

C14_OnePostNoRetry == []C14_PostCount /\ [][C14_NothingAfterReturn]_vars

C14_Witness ==
  /\ pc = "returned"
  /\ ret.err.kind \in DecodeErrors
  /\ decoded >= 1
  /\ posts = 1

\* the configured model as the list names it: ":latest" when it has no tag
Named(model) == IF ContainsColon(model) THEN model ELSE model \o Latest

\* C15: PullIfNeeded pulls only a model that is not there: when the list
\* contains the configured model (":latest" appended to a name without tag)
\* no Pull is called and nil is returned; Pull is called at most once, only
\* when the model is absent from the list, and its error is what
\* PullIfNeeded returns.
C15_PullOnlyIfAbsent ==
  /\ (ifPc # "idle" /\ ~listing.err /\ Named(ifModel) \in listing.names) =>
       (ifPc = "done" /\ ifPulls = 0 /\ ifRet = NilErr)
  /\ ifPulls <= 1
  /\ ifPulls = 1 => (listing.err \/ Named(ifModel) \notin listing.names)
  /\ (ifPc = "done" /\ ifPulls = 1) => ifRet = pullErr
  /\ (ifPc = "done" /\ ifPulls = 0) => ifRet = NilErr

\* a name without tag, listed as :latest, is not pulled
C15_Witness ==
  /\ ifPc = "done"
  /\ ifModel = <<"llama2">>
  /\ ~listing.err
  /\ <<"llama2">> \o Latest \in listing.names
  /\ ifPulls = 0

\* the digest starts with "sha256:"
HasSha256Prefix(digest) ==
  /\ Len(digest) >= Len(Sha256Prefix)
  /\ \A i \in DOMAIN Sha256Prefix : digest[i] = Sha256Prefix[i]

ExampleDigest == Sha256Prefix \o HexBody(16)

\* C16: the digest displayed is the digest without a leading "sha256:",
\* cut to its first 8 characters and left as it is when 8 or fewer remain;
\* "sha256:abcdef1234567890" is displayed as "abcdef12".
C16_DigestDisplayed ==
  digestOut # <<"none">> =>
    LET skip == IF HasSha256Prefix(digestIn) THEN Len(Sha256Prefix) ELSE 0
        rest == Len(digestIn) - skip
    IN  /\ Len(digestOut) = IF rest > 8 THEN 8 ELSE rest
        /\ \A i \in DOMAIN digestOut : digestOut[i] = digestIn[skip + i]
        /\ digestIn = ExampleDigest =>
             digestOut = <<"a", "b", "c", "d", "e", "f", "1", "2">>

\* the example of the specification has been shortened
C16_Witness ==
  /\ digestIn = ExampleDigest
  /\ digestOut = <<"a", "b", "c", "d", "e", "f", "1", "2">>

\* the records the loop body has gone through
Processed == IF pc = "render" THEN decoded - 1 ELSE decoded

\* C17 as stated: every record with total == 0 takes the manifest branch
\* (no ratio, no progress bar) and advances the spinner index by exactly
\* one, a record with a total leaves the index alone, and the frame selected
\* is one of the spinner's frames.
C17_ManifestStepAlways ==
  pc = "render" =>
    /\ spinnerPosition' = spinnerPosition + (IF resp.Total = 0 THEN 1 ELSE 0)
    /\ resp.Total = 0 => (progressBar' = progressBar /\ pc' = "success")
C17_SpinnerAdvancesPerManifestRecord ==
  /\ []((spinnerPosition % Len(spinner)) + 1 \in DOMAIN spinner)
  /\ [][C17_ManifestStepAlways]_vars

\* C17, amended: the spinner index advances by one per record with
\* total == 0 in verbose mode only and stays 0 otherwise; such a record
\* reaches neither the ratio nor the progress bar; a record with a total
\* leaves the index alone; the frame selected is one of the 4 frames.
C17_ManifestStep ==
  pc = "render" =>
    /\ spinnerPosition' =
         spinnerPosition + (IF resp.Total = 0 /\ verbose THEN 1 ELSE 0)
    /\ resp.Total = 0 => (progressBar' = progressBar /\ pc' = "success")
C17_SpinnerCount ==
  /\ Len(spinner) = 4
  /\ (spinnerPosition % Len(spinner)) + 1 \in DOMAIN spinner
  /\ pc \notin {"idle", "post"} =>
       /\ ~verbose => spinnerPosition = 0
       /\ spinnerPosition <= Processed
C17_ManifestBranch == []C17_SpinnerCount /\ [][C17_ManifestStep]_vars

\* verbose: two records without a total and one with a total have gone by
C17_Witness ==
  /\ verbose
  /\ pc = "success"
  /\ decoded = 3
  /\ spinnerPosition = 2
  /\ resp.Total = 0

\* C18: the digest tracker is updated unconditionally: once a decoded record
\* has been processed the last-seen digest is that record's digest, empty or
\* not, boundary or not, and no other step of the loop changes it.
C18_LastDigestIsLastProcessed ==
  pc \in {"decode", "render", "success", "timeout"} =>
    lastDigest = IF Processed = 0 THEN NoDigest ELSE digests[Processed]
C18_OnlyTheUpdateChanges ==
  lastDigest' # lastDigest => pc \in {"post", "render"}
C18_TrackerUpdatedUnconditionally ==
  []C18_LastDigestIsLastProcessed /\ [][C18_OnlyTheUpdateChanges]_vars

\* an empty digest has replaced D1, which had followed itself without a
\* boundary
C18_Witness ==
  /\ pc = "success"
  /\ digests = <<D1, D1, NoDigest>>
  /\ boundaries = <<FALSE, FALSE, TRUE>>
  /\ lastDigest = NoDigest

\* the record in old.pullResp made the call return the status error
OldFatal ==
  /\ old.pc = "returned"
  /\ old.ret.err.kind = "status"

\* C19 as stated: in the earlier Pull a decoded record is fatal exactly when
\* its status is not "success" and starts with neither the downloading nor
\* the verifying prefix; every other status, "success" too, returns no
\* error.
C19_FatalUnlessSuccessDownloadingVerifying ==
  old.tested =>
    (OldFatal <=>
       /\ old.pullResp.Status # Success
       /\ ~HasPrefix(old.pullResp.Status, Downloading)
       /\ ~HasPrefix(old.pullResp.Status, Verifying))

\* C19, amended: a decoded record is fatal exactly when its status starts
\* with none of "downloading ", "pulling " and "verifying "; "success" is
\* such a status.  The fatal return has no text; a "verifying " status ends
\* the call with the text and no error.
C19_FatalUnlessKnownPrefix ==
  old.tested =>
    /\ OldFatal <=>
         \A prefix \in {Downloading, Pulling, Verifying} :
           ~HasPrefix(old.pullResp.Status, prefix)
    /\ OldFatal =>
         old.ret = [text |-> <<>>, err |-> StatusErr(old.pullResp.Status)]
    /\ HasPrefix(old.pullResp.Status, Verifying) =>
         (old.pc = "returned" /\ old.ret = [text |-> old.sb, err |-> NilErr])

\* "success" after a "pulling " status that was let through
C19_Witness ==
  /\ OldFatal
  /\ old.pullResp.Status = Success
  /\ old.sb = Pulling \o <<"manifest">> \o Success

\* the three terminal outcomes of a call
DONE == ret.err = NilErr /\ SuccessDecoded
FAILED == ret.err.kind \in DecodeErrors
TIMED_OUT == ret.err.kind = "timeout"

\* C20: a call whose POST succeeded ends in exactly one of the outcomes
\* DONE (success record, nil error), FAILED (decode or end-of-stream error)
\* and TIMED_OUT (timeout error): once it is out of the loop it has returned
\* one of them, having decoded no more than the records of the stream and
\* the one failing decode.
C20_ThreeTerminalOutcomes ==
  (statusCode # 0 /\ pc \notin {"decode", "render", "success", "timeout"}) =>
    /\ pc = "returned"
    /\ DONE \/ FAILED \/ TIMED_OUT
    /\ ~(DONE /\ FAILED) /\ ~(DONE /\ TIMED_OUT) /\ ~(FAILED /\ TIMED_OUT)
    /\ decodeCalls = decoded + (IF FAILED THEN 1 ELSE 0)

====
